---- MODULE Spec2Model ----
(***************************************************************************)
(* Orchestration core of the Auto-DataScientist orchestrator               *)
(* (services/orchestrator/src/main.py and the agents it drives).           *)
(*                                                                         *)
(* The store `workflows` is a dict id -> state object.  Every driver and   *)
(* every endpoint takes `state = workflows[id]`, a reference to the one    *)
(* dict object created by start_workflow, mutates it in place and writes   *)
(* the reference back; the agents return the object they were given.  So   *)
(* the model keeps the objects in `heap` and the keys of the dict in       *)
(* `workflows`.                                                            *)
(*                                                                         *)
(* Endpoints are `async def` without an await: each runs atomically on the *)
(* event loop.  run_workflow_simulation is an `async def` background task  *)
(* without an await as well: once it has begun it occupies the event loop  *)
(* until it returns (variable `loop`).  The other drivers are plain `def`  *)
(* background tasks and run on the thread pool, concurrently with the      *)
(* event loop and with one another; they are interleaved here at their     *)
(* blocking calls.  A background task is started by the request's own      *)
(* coroutine right after the response is sent, so run_workflow_simulation  *)
(* holds the event loop from the moment start_workflow returns.            *)
(*                                                                         *)
(* `tasks` has one slot per background task that can be alive at a time;   *)
(* a slot keeps the record of the task that ran in it (what it called and  *)
(* how it returned) until the next request is served.                      *)
(*                                                                         *)
(* The model follows one workflow id.  start_workflow draws a fresh uuid4  *)
(* per request, and a driver or an endpoint reads and writes only the      *)
(* record of the id it is given (clear_all_workflows empties the store),   *)
(* so the records of other ids take no part in what happens to this one.   *)
(***************************************************************************)
EXTENDS Integers, Sequences, FiniteSets, TLC

\* ---- bounds of the model ---------------------------------------------
\* Background tasks alive at a time, and requests served in a behaviour.
MaxTasks == 1
MaxCalls == 3

\* ---- program constants ------------------------------------------------
max_retries == 3
max_debug_attempts == 3
max_debug_attempts_run == 3

\* The id start_workflow hands out.
WorkflowIds == {1}

\* Locators.  Candidates are what a search can return; Locators are what a
\* request may carry in dataset_url.
Candidates == {"kaggle.com/datasets/d1"}
Locators == {"", "host/d2.csv"}

\* len(url.strip()) of the locators of the model
UrlLen(u) == IF u = "" THEN 0 ELSE IF u = "host/d2.csv" THEN 11 ELSE 22

\* critic.py line 99: "kaggle.com/datasets" in dataset_url.lower()
is_kaggle(u) == u = "kaggle.com/datasets/d1"

Range(q) == {q[k] : k \in DOMAIN q}

PENDING == "pending"
APPROVED == "approved"
REJECTED == "rejected"
ApprovalStatus == {PENDING, APPROVED, REJECTED}

SchemaNotAvailable == "Schema not available"

\* ---- executor output --------------------------------------------------
\* Captured logs are sequences of words; a keyword occurs in the logs when
\* it is one of the words.
error_keywords == {"Traceback", "Error:", "Exception:", "KeyError", "SyntaxError"}

WordLen(word) == IF word = "KeyError" THEN 8 ELSE IF word = "ok" THEN 2 ELSE 9

RECURSIVE TextLen(_)
TextLen(logs) == IF logs = <<>> THEN 0 ELSE WordLen(Head(logs)) + 1 + TextLen(Tail(logs))

Words(logs) == {logs[k] : k \in DOMAIN logs}

\* main.py 306-307 and 567-568: any(kw in logs for kw in error_keywords)
has_error(logs) == Words(logs) \cap error_keywords # {}

LogSamples == { <<"Training", "complete">>, <<"Traceback", "ValueError">>, <<"KeyError">> }

\* What one POST to the executor can come back with: a 200 with logs, another
\* status, httpx.ConnectError, or another exception (a timeout is one).
ExecOutcomes ==
  {[kind |-> "ok", logs |-> l] : l \in LogSamples}
  \cup {[kind |-> k, logs |-> <<>>] : k \in {"http_error", "connect_error", "timeout"}}

\* The narration entries are {role, content} dicts; the model keeps the role and,
\* for the entries written by main.py itself, what the entry is about.
Narration == "assistant"

VARIABLES workflows, heap, tasks, loop, response, nextId, calls, decided

vars == <<workflows, heap, tasks, loop, response, nextId, calls, decided>>

NoResponse == [op |-> "none", wid |-> 0, code |-> 0, status |-> "", at |-> "none"]

\* initial_state as it would be if the record were created with a first entry
\* in its message log
initial_state_greeting(locator) ==
  [ messages |-> <<Narration>>,
    url |-> locator,
    source_type |-> "",
    schema |-> "",
    eda_code |-> "",
    model_code |-> "",
    review_feedback |-> <<>>,
    human_approval |-> PENDING,
    next_step |-> "research_agent",
    rejected_urls |-> <<>>,
    combined_code |-> 0,
    execution_logs |-> <<>> ]

\* ---- start_workflow ---------------------------------------------------
initial_state(locator) ==
  [ messages |-> <<>>,
    url |-> locator,
    source_type |-> "",
    schema |-> "",
    eda_code |-> "",
    model_code |-> "",
    review_feedback |-> <<>>,
    human_approval |-> PENDING,
    next_step |-> "research_agent",
    rejected_urls |-> <<>>,
    combined_code |-> 0,
    execution_logs |-> <<>> ]

\* A background task: the function it runs (fn), where it is (pc), the
\* function's locals, and a record of what it has done so far (its calls of the
\* stages, the locators the critic refused in its loop, what its scan of the
\* schema-capture logs found, the length of the message log when its execution
\* loop began, the executor's answers in its execution loop, the code each of
\* its submissions carried, the code it combined or last got from the debugger).
NewTask(w, f, p) ==
  [ wid |-> w, entry |-> f, fn |-> f, pc |-> p,
    attempt |-> 0, approved |-> FALSE,
    debug_attempt |-> 0, execution_success |-> FALSE,
    dataset_url |-> "",
    research_calls |-> 0, critic_calls |-> 0, critic |-> "", critical |-> 0,
    refused |-> {}, scan |-> "",
    began |-> 0, execs |-> <<>>, debug_calls |-> 0, failed_writes |-> 0,
    submitted |-> <<>>, code |-> 0,
    exit |-> "", final |-> "" ]

Idle == NewTask(0, "none", "done")

Init ==
  /\ workflows = {}
  /\ heap = <<>>
  /\ tasks = [i \in 1..MaxTasks |-> Idle]
  /\ loop = 0
  /\ response = NoResponse
  /\ nextId = 1
  /\ calls = 0
  /\ decided = [w \in WorkflowIds |-> FALSE]

\* ---- helpers of the drivers --------------------------------------------
\* The driver returns: the stage the record shows at that moment is kept.
Done(t, why, s) == [t EXCEPT !.pc = "done", !.exit = why, !.final = s.next_step]

\* A task may take a step: a thread-pool task always, run_workflow_simulation
\* only while it holds the event loop.
Runnable(i) ==
  /\ i \in DOMAIN tasks
  /\ tasks[i].pc # "done"
  /\ tasks[i].entry = "run_workflow_simulation" => loop = i

Release(i) == IF loop = i THEN 0 ELSE loop

\* The discovery loop is over: its locals, and the record of its calls, are dead.
LoopOver(t) ==
  [t EXCEPT !.attempt = 0, !.dataset_url = "", !.critic = "", !.critical = 0,
            !.research_calls = 0, !.critic_calls = 0, !.refused = {}]

\* ---- research_node (agents/research.py) ---------------------------------
\* lines 79-82: the record already carries a locator
UserProvided(u) == u # "" /\ UrlLen(u) > 5

\* lines 83-101
research_provided(s) ==
  [s EXCEPT !.messages = Append(@, Narration),
            !.next_step = "data_engineering_agent"]

\* lines 337-373: the search ran, u is the locator it chose ("" when none)
research_found(s, u) ==
  [s EXCEPT !.url = u,
            !.messages = Append(@, Narration),
            !.next_step = "data_engineering_agent"]

\* lines 375-393: the search raised, the fallback plan is used
research_fallback(s) ==
  [s EXCEPT !.messages = Append(@, Narration),
            !.next_step = "data_engineering_agent"]

\* The call of research_node(state), up to its first blocking call.  s is the
\* record as the driver left it.
EnterResearch(i, s) ==
  LET t == tasks[i]
      w == t.wid
  IN /\ workflows' = workflows \cup {w}
     /\ IF UserProvided(s.url)
        THEN /\ heap' = [heap EXCEPT ![w] = research_provided(s)]
             /\ tasks' = [tasks EXCEPT ![i] = [t EXCEPT !.pc = "critic",
                                                     !.research_calls = @ + 1]]
        ELSE /\ heap' = [heap EXCEPT ![w] = s]
             /\ tasks' = [tasks EXCEPT ![i] = [t EXCEPT !.pc = "research_io",
                                                     !.research_calls = @ + 1]]

\* The search of research_node returns: results found in the rejected list
\* (the list object of the record, read when the results are filtered, lines
\* 182 and 218) are dropped and the first of the rest is chosen.
research_return(i) ==
  /\ Runnable(i)
  /\ tasks[i].pc = "research_io"
  /\ LET t == tasks[i]
         w == t.wid
     IN /\ \/ \E u \in (Candidates \ Range(heap[w].rejected_urls)) \cup {""} :
                heap' = [heap EXCEPT ![w] = research_found(heap[w], u)]
           \/ heap' = [heap EXCEPT ![w] = research_fallback(heap[w])]
        /\ workflows' = workflows \cup {w}
        /\ tasks' = [tasks EXCEPT ![i] = [t EXCEPT !.pc = "critic"]]
  /\ UNCHANGED <<loop, response, nextId, calls, decided>>

\* ---- critic_node (agents/critic.py) -------------------------------------
CriticalFeedback ==
  { "critical_error: No URL found", "critical_error: HTTP",
    "critical_error: Browser execution failed" }

CriticOutcomes == {"http_fail", "exec_non200", "exec_ok", "connect_error", "exec_exception"}

\* lines 42: no usable locator
NoUrl(u) == u = "" \/ UrlLen(u) < 5

\* What critic_node writes when its checks come back with outcome o; u is
\* the locator it read on entry.
critic_result(s, o, u) ==
  CASE o = "http_fail" ->          \* lines 71-80 (and 84-93, the check raised)
         [s EXCEPT !.review_feedback = Append(@, "critical_error: HTTP"),
                   !.url = "",
                   !.messages = Append(@, Narration)]
    [] o = "exec_non200" ->        \* lines 221-230
         [s EXCEPT !.review_feedback = Append(@, "critical_error: Browser execution failed"),
                   !.url = "",
                   !.messages = Append(@, Narration)]
    [] o = "connect_error" ->      \* lines 254-263
         [s EXCEPT !.review_feedback = Append(@, "approved"),
                   !.messages = Append(@, Narration)]
    [] o = "exec_exception" ->     \* lines 265-274
         [s EXCEPT !.review_feedback = Append(@, "approved"),
                   !.messages = Append(@, Narration)]
    [] OTHER ->                    \* exec_ok, lines 232-252 and 276-307
         [s EXCEPT !.source_type = IF is_kaggle(u) THEN "kaggle" ELSE "direct",
                   !.next_step = "waiting_human_approval",
                   !.human_approval = PENDING,
                   !.messages = Append(@, Narration)]

\* The driver sets the stage and calls critic_node, which reads the locator,
\* clears the feedback and, with no usable locator, returns at once.
critic_call(i) ==
  /\ Runnable(i)
  /\ tasks[i].pc = "critic"
  /\ LET t == tasks[i]
         w == t.wid
         s == [heap[w] EXCEPT !.next_step = "critic_agent", !.review_feedback = <<>>]
     IN /\ workflows' = workflows \cup {w}
        /\ IF NoUrl(s.url)
           THEN /\ heap' = [heap EXCEPT ![w] =
                       [s EXCEPT !.review_feedback = Append(@, "critical_error: No URL found")]]
                /\ tasks' = [tasks EXCEPT ![i] = [t EXCEPT !.pc = "after_critic",
                                                        !.critic_calls = @ + 1,
                                                        !.critic = "no_url"]]
           ELSE /\ heap' = [heap EXCEPT ![w] = s]
                /\ tasks' = [tasks EXCEPT ![i] = [t EXCEPT !.pc = "critic_io",
                                                        !.dataset_url = s.url,
                                                        !.critic = "",
                                                        !.critic_calls = @ + 1]]
  /\ UNCHANGED <<loop, response, nextId, calls, decided>>

\* critic_node returns from its HTTP check and its executor call.
critic_return(i) ==
  /\ Runnable(i)
  /\ tasks[i].pc = "critic_io"
  /\ LET t == tasks[i]
         w == t.wid
     IN \E o \in CriticOutcomes :
          /\ heap' = [heap EXCEPT ![w] = critic_result(heap[w], o, t.dataset_url)]
          /\ tasks' = [tasks EXCEPT ![i] =
                [t EXCEPT !.pc = "after_critic",
                          !.critic = o,
                          !.refused = IF o \in {"http_fail", "exec_non200"}
                                      THEN @ \cup {t.dataset_url} ELSE @]]
  /\ UNCHANGED <<workflows, loop, response, nextId, calls, decided>>

\* ---- run_workflow_simulation (main.py 114-341) --------------------------
\* The loop test with one iteration too many.
MoreAttempts_off_by_one(attempt) == attempt <= max_retries

\* line 129: for attempt in range(1, max_retries + 1) has another iteration

MoreAttempts(attempt) == attempt < max_retries

\* lines 155-178: what the loop does with the critic's answer
critic_verdict(s) ==
  IF s.next_step = "waiting_human_approval" THEN "checkpoint"
  ELSE IF "approved" \in Range(s.review_feedback) THEN "approved"
  ELSE IF Range(s.review_feedback) \cap CriticalFeedback # {} THEN "retry"
  ELSE "approved"

\* lines 130-136: one iteration of the loop starts
run_research(i) ==
  /\ Runnable(i)
  /\ tasks[i].fn = "run_workflow_simulation"
  /\ tasks[i].pc = "research"
  /\ EnterResearch(i, [heap[tasks[i].wid] EXCEPT !.next_step = "research_agent"])
  /\ UNCHANGED <<loop, response, nextId, calls, decided>>

\* lines 151-199: the critic has returned
run_after_critic(i) ==
  /\ Runnable(i)
  /\ tasks[i].fn = "run_workflow_simulation"
  /\ tasks[i].pc = "after_critic"
  /\ LET t == tasks[i]
         w == t.wid
         s == heap[w]
         v == critic_verdict(s)
     IN /\ workflows' = workflows \cup {w}
        /\ CASE v = "checkpoint" ->                       \* lines 159-163
                  /\ heap' = heap
                  /\ tasks' = [tasks EXCEPT ![i] = Done(t, "checkpoint", s)]
                  /\ loop' = Release(i)
             [] v = "approved" ->                         \* lines 165-168, 175-178, 196-199
                  /\ heap' = [heap EXCEPT ![w] = [s EXCEPT !.next_step = "data_engineering_agent"]]
                  /\ tasks' = [tasks EXCEPT ![i] = [t EXCEPT !.approved = TRUE, !.pc = "de"]]
                  /\ loop' = loop
             [] v = "retry" /\ MoreAttempts(t.attempt) -> \* lines 170-173
                  /\ heap' = heap
                  /\ tasks' = [tasks EXCEPT ![i] = [t EXCEPT !.attempt = @ + 1, !.critical = @ + 1,
                                                          !.pc = "research"]]
                  /\ loop' = loop
             [] OTHER ->                                  \* lines 187-194
                  /\ heap' = [heap EXCEPT ![w] =
                        [s EXCEPT !.messages = Append(@, "assistant: Workflow aborted, no valid dataset URL")]]
                  /\ tasks' = [tasks EXCEPT ![i] = Done([t EXCEPT !.critical = @ + 1], "exhausted", s)]
                  /\ loop' = Release(i)
  /\ UNCHANGED <<response, nextId, calls, decided>>

\* ---- generation stages ---------------------------------------------------
\* data_engineering_node (agents/data_engineer.py 118-157, 159-206): the EDA
\* code is whatever the LLM answered (possibly nothing), or the fallback.
EdaCodes == {"eda", ""}

data_engineering_result(s, code) ==
  [s EXCEPT !.eda_code = code,
            !.messages = Append(@, Narration),
            !.next_step = "browser_agent"]

\* ml_engineering_node (agents/ml_engineer.py 179-217, 219-269)
MlCodes == {"ml"}

ml_engineering_result(s, code) ==
  [s EXCEPT !.model_code = code,
            !.messages = Append(@, Narration),
            !.next_step = "critic_agent"]

\* ---- schema capture ------------------------------------------------------
\* Logs of the schema-capture executions, as words.
SchemaLogSamples == { <<"DataFrame", "int64">>, <<"DATA_SCHEMA_LOCKED:", "['age']">> }

SchemaExecOutcomes ==
  {[kind |-> "ok", logs |-> l] : l \in SchemaLogSamples}
  \cup {[kind |-> k, logs |-> <<>>] : k \in {"http_error", "exception"}}

\* main.py 83-111: the parts the patterns find in the logs, joined (the logs of
\* the model hold nothing the columns pattern matches)
extract_schema_from_logs(logs) ==
  IF "DataFrame" \in Words(logs) /\ "int64" \in Words(logs)
  THEN "DataFrame Info; Data Types"
  ELSE IF "DataFrame" \in Words(logs) THEN "DataFrame Info"
  ELSE IF "int64" \in Words(logs) THEN "Data Types"
  ELSE ""

\* main.py 224-248 (run_workflow_simulation): the schema after the EDA run
eda_schema(o) ==
  IF o.kind = "ok" /\ extract_schema_from_logs(o.logs) # ""
  THEN extract_schema_from_logs(o.logs)
  ELSE SchemaNotAvailable

\* main.py 436: logs.split("DATA_SCHEMA_LOCKED:")[1].split("\n")[0]
schema_str(logs) ==
  LET k == CHOOSE k \in DOMAIN logs : logs[k] = "DATA_SCHEMA_LOCKED:"
  IN IF k + 1 \in DOMAIN logs THEN logs[k + 1] ELSE ""

\* main.py 438, 444, 448: the record holds no schema yet
schema_empty(s) == s.schema = ""

\* The schema-capture run as it would be if the placeholder were written
\* without looking at the stored value.
capture_schema_unchecked(s, o) ==
  CASE o.kind = "exception" -> SchemaNotAvailable
    [] o.kind = "http_error" -> SchemaNotAvailable
    [] "DATA_SCHEMA_LOCKED:" \in Words(o.logs) -> schema_str(o.logs)
    [] OTHER -> SchemaNotAvailable

\* main.py 431-459 (continue_workflow_after_approval): the schema after the
\* schema-capture run
capture_schema(s, o) ==
  CASE o.kind = "exception" -> SchemaNotAvailable
    [] o.kind = "http_error" -> IF schema_empty(s) THEN SchemaNotAvailable ELSE s.schema
    [] "DATA_SCHEMA_LOCKED:" \in Words(o.logs) ->
         IF schema_empty(s) THEN schema_str(o.logs) ELSE s.schema
    [] OTHER -> IF schema_empty(s) THEN SchemaNotAvailable ELSE s.schema

\* main.py 431-458: what the scan of the schema-capture logs came to
scan_found(o) ==
  IF o.kind # "ok" THEN o.kind
  ELSE IF "DATA_SCHEMA_LOCKED:" \in Words(o.logs) THEN "tag" ELSE "no_tag"

\* main.py 462: the relay is polled
needs_poll(s) == s.schema = "" \/ s.schema = SchemaNotAvailable

\* What the relay poll finds: str(schema_data) of the latest message, or nothing.
RelaySchemas == {"", "['bmi']"}

\* ---- self-healing loop (main.py 287-341 and 548-602) ---------------------
\* The loop as it would be if an unreachable executor were handled like failing
\* code: corrected and tried again.
heal_verdict_retry_unreachable(o, debug_attempt) ==
  IF o.kind \in {"ok", "connect_error"}
  THEN IF (o.kind = "connect_error" \/ has_error(o.logs)) /\ debug_attempt < max_debug_attempts
       THEN "debug"
       ELSE IF o.kind = "ok" /\ ~has_error(o.logs) THEN "success" ELSE "stop"
  ELSE "stop"

\* The loop as it would be without the branch for errors on the last attempt.
heal_verdict_success_on_last(o, debug_attempt) ==
  IF o.kind = "ok"
  THEN IF has_error(o.logs) /\ debug_attempt < max_debug_attempts THEN "debug"
       ELSE "success"
  ELSE "stop"

\* The first copy's answer as it would be with one attempt fewer.
run_heal_verdict_short(o, debug_attempt) ==
  IF o.kind = "ok"
  THEN IF has_error(o.logs) /\ debug_attempt < max_debug_attempts_run - 1 THEN "debug"
       ELSE IF ~has_error(o.logs) THEN "success"
       ELSE "stop"
  ELSE "stop"

\* lines 300-330: what the loop of run_workflow_simulation does with one
\* executor answer
run_heal_verdict(o, debug_attempt) ==
  IF o.kind = "ok"
  THEN IF has_error(o.logs) /\ debug_attempt < max_debug_attempts_run THEN "debug"
       ELSE IF ~has_error(o.logs) THEN "success"
       ELSE "stop"
  ELSE "stop"

\* lines 561-591: what the loop of continue_after_schema_validation does with
\* one executor answer
heal_verdict(o, debug_attempt) ==
  IF o.kind = "ok"
  THEN IF has_error(o.logs) /\ debug_attempt < max_debug_attempts THEN "debug"
       ELSE IF ~has_error(o.logs) THEN "success"
       ELSE "stop"
  ELSE "stop"

\* The final status as it would be if a clean run completed the workflow.
final_stage_completed(execution_success) ==
  IF execution_success THEN "completed" ELSE "failed"

\* lines 333-339
run_final_stage(execution_success) ==
  IF execution_success THEN "waiting_final_approval" ELSE "failed"

\* lines 594-600
final_stage(execution_success) ==
  IF execution_success THEN "waiting_final_approval" ELSE "failed"

\* debugger_node (agents/debugger.py 39-51): it has logs to work on
debuggable(s) == ~(TextLen(s.execution_logs) < 10)

\* debugger_node 99-126 (fixed) and 128-137 (the LLM call raised)
debugger_result(s, fixed) ==
  IF ~debuggable(s) THEN s
  ELSE IF fixed
       THEN [s EXCEPT !.combined_code = @ + 1,
                      !.messages = Append(@, Narration)]
       ELSE [s EXCEPT !.messages = Append(@, Narration)]

RunOrSchema == {"run_workflow_simulation", "continue_after_schema_validation"}

\* data_engineering_node returns to run_workflow_simulation (201-212)
run_de(i) ==
  /\ Runnable(i)
  /\ tasks[i].fn = "run_workflow_simulation"
  /\ tasks[i].pc = "de"
  /\ LET t == tasks[i]
         w == t.wid
     IN \E code \in EdaCodes :
          /\ heap' = [heap EXCEPT ![w] =
                [data_engineering_result(heap[w], code) EXCEPT
                    !.next_step = "intermediate_eda_execution"]]
          /\ tasks' = [tasks EXCEPT ![i] = [LoopOver(t) EXCEPT !.pc = "eda_exec"]]
          /\ workflows' = workflows \cup {w}
  /\ UNCHANGED <<loop, response, nextId, calls, decided>>

\* the intermediate EDA execution returns (214-253)
run_eda_exec(i) ==
  /\ Runnable(i)
  /\ tasks[i].fn = "run_workflow_simulation"
  /\ tasks[i].pc = "eda_exec"
  /\ LET t == tasks[i]
         w == t.wid
     IN \E o \in SchemaExecOutcomes :
          /\ heap' = [heap EXCEPT ![w] =
                [heap[w] EXCEPT !.schema = eda_schema(o),
                                !.next_step = "ml_engineering_agent"]]
          /\ tasks' = [tasks EXCEPT ![i] = [t EXCEPT !.pc = "ml"]]
          /\ workflows' = workflows \cup {w}
  /\ UNCHANGED <<loop, response, nextId, calls, decided>>

\* ml_engineering_node returns; the code is combined and the loop is entered
\* (254-290 and 513-551)
ml_return(i) ==
  /\ Runnable(i)
  /\ tasks[i].fn \in RunOrSchema
  /\ tasks[i].pc = "ml"
  /\ LET t == tasks[i]
         w == t.wid
     IN \E code \in MlCodes :
          /\ heap' = [heap EXCEPT ![w] =
                [ml_engineering_result(heap[w], code) EXCEPT
                    !.combined_code = 1,
                    !.next_step = "browser_execution"]]
          /\ tasks' = [tasks EXCEPT ![i] = [t EXCEPT !.pc = "heal_exec",
                                                  !.began = Len(heap[w].messages) + 1,
                                                  !.code = 1,
                                                  !.debug_attempt = 1,
                                                  !.execution_success = FALSE]]
          /\ workflows' = workflows \cup {w}
  /\ UNCHANGED <<loop, response, nextId, calls, decided>>

\* One submission to the executor returns (291-341 and 552-602).
heal_exec(i) ==
  /\ Runnable(i)
  /\ tasks[i].fn \in RunOrSchema
  /\ tasks[i].pc = "heal_exec"
  /\ LET t == tasks[i]
         w == t.wid
         s0 == heap[w]
     IN \E o \in ExecOutcomes :
          LET s == IF o.kind = "ok" THEN [s0 EXCEPT !.execution_logs = o.logs] ELSE s0
              v == IF t.fn = "run_workflow_simulation"
                   THEN run_heal_verdict(o, t.debug_attempt)
                   ELSE heal_verdict(o, t.debug_attempt)
              seen == IF o.kind # "ok" THEN o.kind
                      ELSE IF has_error(o.logs) THEN "error" ELSE "clean"
              t1 == [t EXCEPT !.execs = Append(@, seen),
                              !.submitted = Append(@, s0.combined_code)]
          IN IF v = "debug"
             THEN /\ heap' = [heap EXCEPT ![w] = s]
                  /\ tasks' = [tasks EXCEPT ![i] = [t1 EXCEPT !.pc = "heal_debug"]]
                  /\ workflows' = IF o.kind = "ok" THEN workflows \cup {w} ELSE workflows
                  /\ loop' = loop
             ELSE LET ok == (v = "success")
                      s2 == [s EXCEPT !.next_step = IF t.fn = "run_workflow_simulation"
                                                    THEN run_final_stage(ok)
                                                    ELSE final_stage(ok)]
                  IN /\ heap' = [heap EXCEPT ![w] = s2]
                     /\ tasks' = [tasks EXCEPT ![i] =
                           Done([t1 EXCEPT !.execution_success = ok,
                                           !.failed_writes = IF s2.next_step = "failed"
                                                             THEN @ + 1 ELSE @],
                                IF ok THEN "heal_ok" ELSE "heal_failed", s2)]
                     /\ workflows' = workflows \cup {w}
                     /\ loop' = Release(i)
  /\ UNCHANGED <<response, nextId, calls, decided>>

\* debugger_node returns (311-314 and 572-575); the next attempt starts
heal_debug(i) ==
  /\ Runnable(i)
  /\ tasks[i].fn \in RunOrSchema
  /\ tasks[i].pc = "heal_debug"
  /\ LET t == tasks[i]
         w == t.wid
     IN \E fixed \in BOOLEAN :
          /\ heap' = [heap EXCEPT ![w] = debugger_result(heap[w], fixed)]
          /\ tasks' = [tasks EXCEPT ![i] =
                [t EXCEPT !.pc = "heal_exec",
                          !.debug_attempt = @ + 1,
                          !.debug_calls = @ + 1,
                          !.code = IF fixed /\ debuggable(heap[w])
                                   THEN debugger_result(heap[w], fixed).combined_code
                                   ELSE @]]
          /\ workflows' = workflows \cup {w}
  /\ UNCHANGED <<loop, response, nextId, calls, decided>>

\* ---- continue_workflow_after_approval (main.py 345-495) -------------------
\* lines 349-361; also entered by a call from retry_research_after_rejection
cont_begin(i) ==
  /\ Runnable(i)
  /\ tasks[i].fn = "continue_workflow_after_approval"
  /\ tasks[i].pc = "start"
  /\ LET t == tasks[i]
         w == t.wid
     IN IF w \in workflows
        THEN /\ heap' = [heap EXCEPT ![w] = [@ EXCEPT !.next_step = "data_engineering_agent"]]
             /\ tasks' = [tasks EXCEPT ![i] = [t EXCEPT !.pc = "de"]]
        ELSE /\ heap' = heap
             /\ tasks' = [tasks EXCEPT ![i] = [t EXCEPT !.pc = "done", !.exit = "not_found",
                                                     !.final = "none"]]
  /\ UNCHANGED <<workflows, loop, response, nextId, calls, decided>>

\* The schema checkpoint (491-495).
AtSchemaCheckpoint(i, t, s) ==
  /\ heap' = [heap EXCEPT ![t.wid] = [s EXCEPT !.next_step = "waiting_schema_approval"]]
  /\ tasks' = [tasks EXCEPT ![i] =
        Done(t, "checkpoint", [s EXCEPT !.next_step = "waiting_schema_approval"])]

\* data_engineering_node returns (361-379); without EDA code the placeholder
\* is written at once (450-454)
cont_de(i) ==
  /\ Runnable(i)
  /\ tasks[i].fn = "continue_workflow_after_approval"
  /\ tasks[i].pc = "de"
  /\ LET t == tasks[i]
         w == t.wid
     IN \E code \in EdaCodes :
          LET s == [data_engineering_result(heap[w], code) EXCEPT
                       !.next_step = "intermediate_schema_capture"]
          IN /\ workflows' = workflows \cup {w}
             /\ IF code # ""
                THEN /\ heap' = [heap EXCEPT ![w] = s]
                     /\ tasks' = [tasks EXCEPT ![i] = [LoopOver(t) EXCEPT !.pc = "schema_exec"]]
                ELSE /\ heap' = [heap EXCEPT ![w] = [s EXCEPT !.schema = SchemaNotAvailable]]
                     /\ tasks' = [tasks EXCEPT ![i] = [LoopOver(t) EXCEPT !.pc = "ntfy_poll"]]
  /\ UNCHANGED <<loop, response, nextId, calls, decided>>

\* the schema-capture execution returns (425-462)
cont_schema_exec(i) ==
  /\ Runnable(i)
  /\ tasks[i].fn = "continue_workflow_after_approval"
  /\ tasks[i].pc = "schema_exec"
  /\ LET w == tasks[i].wid
     IN \E o \in SchemaExecOutcomes :
          LET s == [heap[w] EXCEPT !.schema = capture_schema(heap[w], o)]
              t == [tasks[i] EXCEPT !.scan = scan_found(o)]
          IN /\ workflows' = workflows \cup {w}
             /\ IF needs_poll(s)
                THEN /\ heap' = [heap EXCEPT ![w] = s]
                     /\ tasks' = [tasks EXCEPT ![i] = [t EXCEPT !.pc = "ntfy_poll"]]
                ELSE AtSchemaCheckpoint(i, t, s)
  /\ UNCHANGED <<loop, response, nextId, calls, decided>>

\* the poll of the relay returns (463-495)
cont_ntfy_poll(i) ==
  /\ Runnable(i)
  /\ tasks[i].fn = "continue_workflow_after_approval"
  /\ tasks[i].pc = "ntfy_poll"
  /\ LET t == tasks[i]
         w == t.wid
     IN \E found \in RelaySchemas :
          /\ workflows' = workflows \cup {w}
          /\ AtSchemaCheckpoint(i, t, IF found # "" THEN [heap[w] EXCEPT !.schema = found]
                                                    ELSE heap[w])
  /\ UNCHANGED <<loop, response, nextId, calls, decided>>

\* ---- continue_after_schema_validation (main.py 498-602) ------------------
\* lines 502-514
schema_begin(i) ==
  /\ Runnable(i)
  /\ tasks[i].fn = "continue_after_schema_validation"
  /\ tasks[i].pc = "start"
  /\ LET t == tasks[i]
         w == t.wid
     IN IF w \in workflows
        THEN /\ heap' = [heap EXCEPT ![w] = [@ EXCEPT !.next_step = "ml_engineering_agent"]]
             /\ tasks' = [tasks EXCEPT ![i] = [t EXCEPT !.pc = "ml"]]
        ELSE /\ heap' = heap
             /\ tasks' = [tasks EXCEPT ![i] = [t EXCEPT !.pc = "done", !.exit = "not_found",
                                                     !.final = "none"]]
  /\ UNCHANGED <<workflows, loop, response, nextId, calls, decided>>

\* ---- retry_research_after_rejection (main.py 606-661) --------------------
\* The retry as it would be if it cleared the exclusion list along with the old
\* dataset info.
retry_begin_clearing(i) ==
  /\ Runnable(i)
  /\ tasks[i].fn = "retry_research_after_rejection"
  /\ tasks[i].pc = "start"
  /\ LET t == tasks[i]
         w == t.wid
     IN IF w \in workflows
        THEN EnterResearch(i, [heap[w] EXCEPT !.url = "",
                                              !.rejected_urls = <<>>,
                                              !.review_feedback = <<>>,
                                              !.human_approval = PENDING,
                                              !.next_step = "research_agent"])
        ELSE /\ heap' = heap
             /\ workflows' = workflows
             /\ tasks' = [tasks EXCEPT ![i] = [t EXCEPT !.pc = "done", !.exit = "not_found",
                                                     !.final = "none"]]
  /\ UNCHANGED <<loop, response, nextId, calls, decided>>

\* lines 610-628
retry_begin(i) ==
  /\ Runnable(i)
  /\ tasks[i].fn = "retry_research_after_rejection"
  /\ tasks[i].pc = "start"
  /\ LET t == tasks[i]
         w == t.wid
     IN IF w \in workflows
        THEN EnterResearch(i, [heap[w] EXCEPT !.url = "",
                                              !.review_feedback = <<>>,
                                              !.human_approval = PENDING,
                                              !.next_step = "research_agent"])
        ELSE /\ heap' = heap
             /\ workflows' = workflows
             /\ tasks' = [tasks EXCEPT ![i] = [t EXCEPT !.pc = "done", !.exit = "not_found",
                                                     !.final = "none"]]
  /\ UNCHANGED <<loop, response, nextId, calls, decided>>

\* lines 644-655: the critic has returned
retry_after_critic(i) ==
  /\ Runnable(i)
  /\ tasks[i].fn = "retry_research_after_rejection"
  /\ tasks[i].pc = "after_critic"
  /\ LET t == tasks[i]
         w == t.wid
         s == heap[w]
     IN /\ workflows' = workflows \cup {w}
        /\ tasks' = [tasks EXCEPT ![i] =
              IF s.next_step = "waiting_human_approval" THEN Done(t, "checkpoint", s)
              ELSE IF "approved" \in Range(s.review_feedback)
                   THEN [t EXCEPT !.fn = "continue_workflow_after_approval", !.pc = "start"]
                   ELSE Done(t, "fallthrough", s)]
  /\ UNCHANGED <<heap, loop, response, nextId, calls, decided>>

\* ---- API endpoints (main.py 675-931) --------------------------------------
\* An endpoint runs when the event loop is free.
Serving == loop = 0 /\ calls < MaxCalls

Reply(op, w, code, status, at) ==
  /\ response' = [op |-> op, wid |-> w, code |-> code, status |-> status, at |-> at]
  /\ calls' = calls + 1

\* The tasks as a request finds them: what finished tasks did is forgotten.
Settled == [i \in DOMAIN tasks |-> IF tasks[i].pc = "done" THEN Idle ELSE tasks[i]]

NoTask == tasks' = Settled

\* HTTPException(status_code=404): nothing else happens
NotFound(op, w) ==
  /\ Reply(op, w, 404, "not_found", "none")
  /\ NoTask
  /\ UNCHANGED <<workflows, heap, loop, nextId, decided>>

\* background_tasks.add_task: the task takes the first free slot
FreeSlots == {i \in DOMAIN tasks : tasks[i].pc = "done"}

Slot == CHOOSE i \in FreeSlots : \A j \in FreeSlots : i <= j

Schedule(w, f) ==
  /\ FreeSlots # {}
  /\ tasks' = [Settled EXCEPT ![Slot] = NewTask(w, f, "start")]

\* lines 675-723, and lines 114-129 of the task it starts
start_workflow ==
  /\ Serving
  /\ nextId \in WorkflowIds
  /\ FreeSlots # {}
  /\ \E locator \in Locators :
       heap' = heap @@ (nextId :> initial_state(locator))
  /\ workflows' = workflows \cup {nextId}
  /\ tasks' = [Settled EXCEPT ![Slot] =
        [NewTask(nextId, "run_workflow_simulation", "research") EXCEPT !.attempt = 1]]
  /\ loop' = Slot
  /\ nextId' = nextId + 1
  /\ Reply("start", nextId, 200, "started", "none")
  /\ UNCHANGED decided

\* status_of as it was before the schema checkpoint had a status of its own
status_of_without_schema(s) ==
  CASE s.next_step = "waiting_human_approval" -> "waiting_approval"
    [] s.next_step = "waiting_final_approval" -> "waiting_final_approval"
    [] s.next_step = "completed" -> "completed"
    [] s.next_step = "failed" -> "failed"
    [] s.next_step = "aborted" -> "aborted"
    [] OTHER -> IF s.human_approval = REJECTED THEN "failed" ELSE "running"

\* lines 734-753
status_of(s) ==
  CASE s.next_step = "waiting_human_approval" -> "waiting_approval"
    [] s.next_step = "waiting_schema_approval" -> "waiting_schema_approval"
    [] s.next_step = "waiting_final_approval" -> "waiting_final_approval"
    [] s.next_step = "completed" -> "completed"
    [] s.next_step = "failed" -> "failed"
    [] s.next_step = "aborted" -> "aborted"
    [] OTHER -> IF s.human_approval = REJECTED THEN "failed" ELSE "running"

\* lines 725-768
get_workflow_status(w) ==
  /\ Serving
  /\ IF w \in workflows
     THEN /\ Reply("status", w, 200, status_of(heap[w]), heap[w].next_step)
          /\ UNCHANGED <<workflows, heap, loop, nextId, decided>>
          /\ NoTask
     ELSE NotFound("status", w)

\* approve_workflow with the check of the checkpoint that the endpoint lacks
approve_workflow_guarded(w) ==
  /\ Serving
  /\ IF w \in workflows
     THEN IF heap[w].next_step = "waiting_human_approval"
          THEN /\ FreeSlots # {}
               /\ heap' = [heap EXCEPT ![w] =
                     [@ EXCEPT !.human_approval = APPROVED,
                               !.review_feedback = Append(@, "approved"),
                               !.next_step = "data_engineering_agent"]]
               /\ Schedule(w, "continue_workflow_after_approval")
               /\ decided' = [decided EXCEPT ![w] = TRUE]
               /\ Reply("approve", w, 200, "approved", heap[w].next_step)
               /\ UNCHANGED <<workflows, loop, nextId>>
          ELSE /\ Reply("approve", w, 409, "invalid_transition", heap[w].next_step)
               /\ UNCHANGED <<workflows, heap, loop, nextId, decided>>
               /\ NoTask
     ELSE NotFound("approve", w)

\* lines 771-790
approve_workflow(w) ==
  /\ Serving
  /\ IF w \in workflows
     THEN /\ FreeSlots # {}
          /\ heap' = [heap EXCEPT ![w] =
                [@ EXCEPT !.human_approval = APPROVED,
                          !.review_feedback = Append(@, "approved"),
                          !.next_step = "data_engineering_agent"]]
          /\ Schedule(w, "continue_workflow_after_approval")
          /\ decided' = [decided EXCEPT ![w] = TRUE]
          /\ Reply("approve", w, 200, "approved", heap[w].next_step)
          /\ UNCHANGED <<workflows, loop, nextId>>
     ELSE NotFound("approve", w)

\* lines 794-806
approve_schema(w) ==
  /\ Serving
  /\ IF w \in workflows
     THEN /\ FreeSlots # {}
          /\ heap' = [heap EXCEPT ![w] = [@ EXCEPT !.next_step = "ml_engineering_agent"]]
          /\ Schedule(w, "continue_after_schema_validation")
          /\ Reply("schema_approve", w, 200, "approved", heap[w].next_step)
          /\ UNCHANGED <<workflows, loop, nextId, decided>>
     ELSE NotFound("schema_approve", w)

\* reject_schema as it would be if the abort replaced the message log by its notice
reject_schema_resetting(w) ==
  /\ Serving
  /\ IF w \in workflows
     THEN /\ heap' = [heap EXCEPT ![w] =
                [@ EXCEPT !.next_step = "aborted",
                          !.messages = <<"system: Workflow aborted by user">>]]
          /\ Reply("schema_reject", w, 200, "aborted", heap[w].next_step)
          /\ UNCHANGED <<workflows, loop, nextId, decided>>
          /\ NoTask
     ELSE NotFound("schema_reject", w)

\* lines 809-824
reject_schema(w) ==
  /\ Serving
  /\ IF w \in workflows
     THEN /\ heap' = [heap EXCEPT ![w] =
                [@ EXCEPT !.next_step = "aborted",
                          !.messages = Append(@, "system: Workflow aborted by user")]]
          /\ Reply("schema_reject", w, 200, "aborted", heap[w].next_step)
          /\ UNCHANGED <<workflows, loop, nextId, decided>>
          /\ NoTask
     ELSE NotFound("schema_reject", w)

\* str(payload.columns) of the bodies the callback is called with
CallbackSchemas == {"['age', 'bmi']"}

\* lines 827-845
receive_schema_callback(w) ==
  /\ Serving
  /\ IF w \in workflows
     THEN /\ \E columns \in CallbackSchemas :
               heap' = [heap EXCEPT ![w] = [@ EXCEPT !.schema = columns]]
          /\ Reply("schema_callback", w, 200, "success", heap[w].next_step)
          /\ UNCHANGED <<workflows, loop, nextId, decided>>
          /\ NoTask
     ELSE NotFound("schema_callback", w)

\* submit_final_feedback as it would be if a regeneration dropped the captured schema
submit_final_feedback_dropping(w) ==
  /\ Serving
  /\ IF w \in workflows
     THEN \/ /\ heap' = [heap EXCEPT ![w] =
                   [@ EXCEPT !.next_step = "completed", !.human_approval = APPROVED]]
             /\ Reply("feedback", w, 200, "completed", heap[w].next_step)
             /\ UNCHANGED <<workflows, loop, nextId, decided>>
             /\ NoTask
          \/ /\ FreeSlots # {}
             /\ \E note \in {"user: Feedback"} :
                  heap' = [heap EXCEPT ![w] =
                     [@ EXCEPT !.messages = Append(@, note),
                               !.schema = "",
                               !.next_step = "data_engineering_agent"]]
             /\ Schedule(w, "continue_workflow_after_approval")
             /\ Reply("feedback", w, 200, "retrying", heap[w].next_step)
             /\ UNCHANGED <<workflows, loop, nextId, decided>>
     ELSE NotFound("feedback", w)

\* lines 848-884
submit_final_feedback(w) ==
  /\ Serving
  /\ IF w \in workflows
     THEN \/ /\ heap' = [heap EXCEPT ![w] =
                   [@ EXCEPT !.next_step = "completed", !.human_approval = APPROVED]]
             /\ Reply("feedback", w, 200, "completed", heap[w].next_step)
             /\ UNCHANGED <<workflows, loop, nextId, decided>>
             /\ NoTask
          \/ /\ FreeSlots # {}
             /\ \E note \in {"user: Feedback"} :
                  heap' = [heap EXCEPT ![w] =
                     [@ EXCEPT !.messages = Append(@, note),
                               !.next_step = "data_engineering_agent"]]
             /\ Schedule(w, "continue_workflow_after_approval")
             /\ Reply("feedback", w, 200, "retrying", heap[w].next_step)
             /\ UNCHANGED <<workflows, loop, nextId, decided>>
     ELSE NotFound("feedback", w)

\* reject_workflow as it would be if it did not record the rejected locator
reject_workflow_forgetting(w) ==
  /\ Serving
  /\ IF w \in workflows
     THEN /\ FreeSlots # {}
          /\ heap' = [heap EXCEPT ![w] =
                [@ EXCEPT !.human_approval = REJECTED,
                          !.next_step = "research_agent"]]
          /\ Schedule(w, "retry_research_after_rejection")
          /\ decided' = [decided EXCEPT ![w] = TRUE]
          /\ Reply("reject", w, 200, "rejected", heap[w].next_step)
          /\ UNCHANGED <<workflows, loop, nextId>>
     ELSE NotFound("reject", w)

\* lines 887-914
reject_workflow(w) ==
  /\ Serving
  /\ IF w \in workflows
     THEN /\ FreeSlots # {}
          /\ LET s == heap[w]
                 listed == IF s.url # "" /\ s.url \notin Range(s.rejected_urls)
                           THEN Append(s.rejected_urls, s.url)
                           ELSE s.rejected_urls
             IN heap' = [heap EXCEPT ![w] =
                   [s EXCEPT !.rejected_urls = listed,
                             !.human_approval = REJECTED,
                             !.next_step = "research_agent"]]
          /\ Schedule(w, "retry_research_after_rejection")
          /\ decided' = [decided EXCEPT ![w] = TRUE]
          /\ Reply("reject", w, 200, "rejected", heap[w].next_step)
          /\ UNCHANGED <<workflows, loop, nextId>>
     ELSE NotFound("reject", w)

\* lines 916-921
clear_all_workflows ==
  /\ Serving
  /\ workflows' = {}
  /\ Reply("clear", 0, 200, "cleared", "none")
  /\ UNCHANGED <<heap, loop, nextId, decided>>
  /\ NoTask

\* delete_workflow as it would be if deleting an unknown id were no error
delete_workflow_idempotent(w) ==
  /\ Serving
  /\ workflows' = workflows \ {w}
  /\ Reply("delete", w, 200, "deleted", "none")
  /\ UNCHANGED <<heap, loop, nextId, decided>>
  /\ NoTask

\* lines 923-931
delete_workflow(w) ==
  /\ Serving
  /\ IF w \in workflows
     THEN /\ workflows' = workflows \ {w}
          /\ Reply("delete", w, 200, "deleted", heap[w].next_step)
          /\ UNCHANGED <<heap, loop, nextId, decided>>
          /\ NoTask
     ELSE NotFound("delete", w)

\* ---- the system ------------------------------------------------------------
Api ==
  \/ start_workflow
  \/ clear_all_workflows
  \/ \E w \in WorkflowIds :
       \/ get_workflow_status(w)
       \/ approve_workflow(w)
       \/ approve_schema(w)
       \/ reject_schema(w)
       \/ receive_schema_callback(w)
       \/ submit_final_feedback(w)
       \/ reject_workflow(w)
       \/ delete_workflow(w)

Driver ==
  \E i \in 1..MaxTasks :
    \/ run_research(i)
    \/ research_return(i)
    \/ critic_call(i)
    \/ critic_return(i)
    \/ run_after_critic(i)
    \/ run_de(i)
    \/ run_eda_exec(i)
    \/ ml_return(i)
    \/ heal_exec(i)
    \/ heal_debug(i)
    \/ cont_begin(i)
    \/ cont_de(i)
    \/ cont_schema_exec(i)
    \/ cont_ntfy_poll(i)
    \/ schema_begin(i)
    \/ retry_begin(i)
    \/ retry_after_critic(i)

Next == Api \/ Driver

Spec == Init /\ [][Next]_vars

\* ---- overlapping drivers ---------------------------------------------------
\* The thread pool runs the drivers that the approve and reject requests add
\* side by side.  This specification gives them one slot more, serves these
\* requests only, and follows the drivers through discovery, validation,
\* generation stage 1 and the schema capture.
InitPair ==
  /\ workflows = {}
  /\ heap = <<>>
  /\ tasks = [i \in 1..(MaxTasks + 1) |-> Idle]
  /\ loop = 0
  /\ response = NoResponse
  /\ nextId = 1
  /\ calls = 0
  /\ decided = [w \in WorkflowIds |-> FALSE]

Decisions ==
  \/ start_workflow
  \/ \E w \in WorkflowIds :
       \/ approve_workflow(w)
       \/ reject_workflow(w)

DriverPair ==
  \E i \in 1..(MaxTasks + 1) :
    \/ run_research(i)
    \/ research_return(i)
    \/ critic_call(i)
    \/ critic_return(i)
    \/ run_after_critic(i)
    \/ cont_begin(i)
    \/ cont_de(i)
    \/ cont_schema_exec(i)
    \/ cont_ntfy_poll(i)
    \/ retry_begin(i)
    \/ retry_after_critic(i)

NextPair == Decisions \/ DriverPair

SpecPair == InitPair /\ [][NextPair]_vars

\* Two schema approvals of one workflow: approve_schema (794-806) schedules
\* continue_after_schema_validation at every call, and the thread pool runs the
\* two tasks side by side on the one record.  The first drive is followed up
\* to its checkpoint, the task in the last slot up to the moment it has
\* combined its code.
Resumptions ==
  \/ start_workflow
  \/ \E w \in WorkflowIds : approve_schema(w)

DriverResume ==
  \E i \in 1..MaxTasks :
    \/ run_research(i)
    \/ research_return(i)
    \/ critic_call(i)
    \/ critic_return(i)
    \/ run_after_critic(i)
    \/ schema_begin(i)
    \/ ml_return(i)
    \/ heal_exec(i)
    \/ heal_debug(i)

LateResume ==
  \E i \in (MaxTasks + 1)..(MaxTasks + 1) :
    \/ schema_begin(i)
    \/ ml_return(i)

NextResume == Resumptions \/ DriverResume \/ LateResume

SpecResume == InitPair /\ [][NextResume]_vars

\* ---- WorkflowStateManager (state_manager.py) --------------------------------
\* The record store of state_manager.py is a second dict id -> state, with a
\* dict of metadata beside it; main.py does not use it.  In SpecManager the
\* variable `heap` is its _states, `decided` is the status kept in its
\* _metadata, `nextId` is the id the next create_workflow draws and `response`
\* is how the last call ended: what it returned, or the exception it raised.
\* The timestamps of the metadata are left out.

\* Records created in a behaviour.
MaxRecords == 2

\* Ids a caller may pass: those create_workflow hands out, and one it never does.
ManagerIds == 1..(MaxRecords + 1)

\* lines 43-57
manager_initial_state(dataset_url) ==
  [ messages |-> <<>>,
    url |-> dataset_url,
    review_feedback |-> <<>>,
    human_approval |-> PENDING,
    next_step |-> "research_agent" ]

\* Records a caller may pass to update_state.
ManagerRecords ==
  { [manager_initial_state("host/d2.csv") EXCEPT !.next_step = n, !.human_approval = a] :
      n \in {"critic_agent", "completed"}, a \in {PENDING, APPROVED} }

\* logging: the numeric value of a level
LevelNo(level) ==
  CASE level = "DEBUG" -> 10
    [] level = "INFO" -> 20
    [] level = "WARNING" -> 30
    [] level = "ERROR" -> 40

\* line 14: setup_logger("state_manager", level="INFO") returns a
\* logging.Logger set to that level (libs/core/logger.py 21-28).
ManagerLogLevel == "INFO"

\* logger.info / warning / error (msg, workflow_id=...): an enabled call hands
\* its keyword arguments to Logger._log, which takes no such keyword and
\* raises TypeError; a call below the logger's level returns at once.
LogCall(level) ==
  IF LevelNo(level) >= LevelNo(ManagerLogLevel) THEN "TypeError" ELSE ""

ManagerReply(op, w, given, raised, returned) ==
  response' = [op |-> op, wid |-> w, given |-> given, raised |-> raised,
               returned |-> IF raised = "" THEN returned ELSE "none"]

InitManager ==
  /\ workflows = {}
  /\ heap = <<>>
  /\ tasks = [i \in 1..MaxTasks |-> Idle]
  /\ loop = 0
  /\ response = [op |-> "none", wid |-> 0, given |-> "none", raised |-> "",
                 returned |-> "none"]
  /\ nextId = 1
  /\ calls = 0
  /\ decided = <<>>

\* lines 29-68
create_workflow ==
  /\ nextId <= MaxRecords
  /\ \E dataset_url \in Locators :
       heap' = heap @@ (nextId :> manager_initial_state(dataset_url))
  /\ decided' = decided @@ (nextId :> "initialized")
  /\ nextId' = nextId + 1
  /\ ManagerReply("create_workflow", nextId, "none", LogCall("INFO"), "id")
  /\ UNCHANGED <<workflows, tasks, loop, calls>>

\* lines 70-87: what get_state raises, and what it returns if it does not
get_state_raises(w) == LogCall(IF w \in DOMAIN heap THEN "INFO" ELSE "WARNING")

get_state_returns(w) == IF w \in DOMAIN heap THEN "record" ELSE "None"

get_state(w) ==
  /\ ManagerReply("get_state", w, "none", get_state_raises(w), get_state_returns(w))
  /\ UNCHANGED <<workflows, heap, tasks, loop, nextId, calls, decided>>

\* lines 89-109
update_state(w, state) ==
  /\ IF w \notin DOMAIN heap
     THEN /\ ManagerReply("update_state", w, state, LogCall("ERROR"), "False")
          /\ heap' = heap
     ELSE /\ heap' = [heap EXCEPT ![w] = state]
          /\ ManagerReply("update_state", w, state, LogCall("INFO"), "True")
  /\ UNCHANGED <<workflows, tasks, loop, nextId, calls, decided>>

\* lines 127-139 and 141-153: get_state, the assignment to the record it
\* returned, update_state with that record, a last logger.info
decide_step(op, w, approval) ==
  /\ IF get_state_raises(w) # ""
     THEN /\ ManagerReply(op, w, "none", get_state_raises(w), "none")
          /\ heap' = heap
     ELSE IF w \notin DOMAIN heap
          THEN /\ ManagerReply(op, w, "none", "", "False")
               /\ heap' = heap
          ELSE /\ heap' = [heap EXCEPT ![w] = [@ EXCEPT !.human_approval = approval]]
               /\ ManagerReply(op, w, "none", LogCall("INFO"), "True")
  /\ UNCHANGED <<workflows, tasks, loop, nextId, calls, decided>>

approve_step(w) == decide_step("approve_step", w, APPROVED)

reject_step(w) == decide_step("reject_step", w, REJECTED)

NextManager ==
  \/ create_workflow
  \/ \E w \in ManagerIds :
       \/ get_state(w)
       \/ \E state \in ManagerRecords : update_state(w, state)
       \/ approve_step(w)
       \/ reject_step(w)

SpecManager == InitManager /\ [][NextManager]_vars

\* ---- properties --------------------------------------------------------------

\* C1: checkpoint invariant.  For every workflow, the stage is never
\* data_engineering_agent or a later stage unless an approve or reject call for
\* that workflow has been served (a call that moves approval away from Pending).
C1_CheckpointInvariant ==
  LET later == { "data_engineering_agent", "browser_agent", "intermediate_eda_execution",
                 "intermediate_schema_capture", "waiting_schema_approval",
                 "ml_engineering_agent", "browser_execution",
                 "waiting_final_approval", "completed" }
  IN \A w \in DOMAIN heap : heap[w].next_step \in later => decided[w]

\* C2: a decision operation (approve, reject, schema approve, schema reject,
\* feedback) served for an existing workflow whose stage is not the matching
\* checkpoint answers 409, leaves every record as it was and schedules no
\* driver task.
C2_WrongCheckpointRejected ==
  [][ LET matching == [ approve |-> "waiting_human_approval",
                        reject |-> "waiting_human_approval",
                        schema_approve |-> "waiting_schema_approval",
                        schema_reject |-> "waiting_schema_approval",
                        feedback |-> "waiting_final_approval" ]
      IN ( /\ calls' = calls + 1
           /\ response'.op \in DOMAIN matching
           /\ response'.code # 404
           /\ response'.at # matching[response'.op] )
         => ( /\ response'.code = 409
              /\ heap' = heap
              /\ tasks' = Settled ) ]_vars

\* C3: whatever the stage of a workflow that is in the store, an approve call
\* answers 200 with status "approved" and a reject call answers 200 with status
\* "rejected".
C3_DecisionAlwaysAccepted ==
  /\ (response.op = "approve" /\ response.code # 404)
        => (response.code = 200 /\ response.status = "approved")
  /\ (response.op = "reject" /\ response.code # 404)
        => (response.code = 200 /\ response.status = "rejected")

\* C3 witness: a reject call was served for a workflow waiting at the final
\* checkpoint, and answered "rejected".
C3_Witness ==
  /\ response.op = "reject"
  /\ response.at = "waiting_final_approval"
  /\ response.code = 200
  /\ response.status = "rejected"

\* C4: one run of run_workflow_simulation calls the discovery stage at most
\* max_retries times and the validation stage at most max_retries times; a run
\* whose every validation answered critical_error made exactly max_retries calls
\* of each when its loop ended.
C4_LoopBound ==
  \A i \in DOMAIN tasks :
    tasks[i].entry = "run_workflow_simulation" =>
      /\ tasks[i].research_calls <= max_retries
      /\ tasks[i].critic_calls <= max_retries
      /\ tasks[i].exit = "exhausted" =>
           /\ tasks[i].critical = max_retries
           /\ tasks[i].research_calls = max_retries
           /\ tasks[i].critic_calls = max_retries

\* C4 witness: a run ended after critical_error on each of its attempts.
C4_Witness ==
  \E i \in DOMAIN tasks :
    /\ tasks[i].entry = "run_workflow_simulation"
    /\ tasks[i].exit = "exhausted"
    /\ tasks[i].critical = max_retries
    /\ tasks[i].critic_calls = max_retries

\* C5: when the discovery+validation loop has used up its attempts without an
\* approval or a checkpoint, the stage of the workflow is failed and the
\* message about the exhausted attempts is the last entry of the message log.
C5_ExhaustionFails ==
  \A i \in DOMAIN tasks :
    tasks[i].exit = "exhausted" =>
      /\ tasks[i].final = "failed"
      /\ heap[tasks[i].wid].next_step = "failed"
      /\ Len(heap[tasks[i].wid].messages) > 0
      /\ heap[tasks[i].wid].messages[Len(heap[tasks[i].wid].messages)]
            = "assistant: Workflow aborted, no valid dataset URL"

\* C6: self-healing loop invariant.  When a run of the execution loop is over:
\* if every attempt's output held a failure signature, there were
\* max_debug_attempts attempts and the stage was set to failed, once; if attempt
\* k is the first whose output held none, k is the last attempt submitted and
\* the stage is waiting_final_approval.
C6_SelfHealingLoop ==
  \A i \in DOMAIN tasks :
    LET t == tasks[i]
        n == Len(t.execs)
    IN (t.pc = "done" /\ n > 0) =>
         /\ n <= max_debug_attempts
         /\ (\A k \in 1..n : t.execs[k] = "error") =>
               /\ n = max_debug_attempts
               /\ t.final = "failed"
               /\ t.failed_writes = 1
         /\ \A k \in 1..n :
               (t.execs[k] = "clean" /\ \A j \in 1..(k - 1) : t.execs[j] = "error") =>
                 /\ n = k
                 /\ t.final = "waiting_final_approval"
                 /\ t.failed_writes = 0

\* C6 witness: a loop whose three attempts all held a failure signature is over.
C6_Witness ==
  \E i \in DOMAIN tasks :
    /\ tasks[i].pc = "done"
    /\ tasks[i].execs = <<"error", "error", "error">>
    /\ tasks[i].final = "failed"

C8_UnreachableShortCircuits ==
  \A i \in DOMAIN tasks :
    LET t == tasks[i]
    IN \A k \in DOMAIN t.execs :
         t.execs[k] = "connect_error" =>
           /\ k = Len(t.execs)
           /\ t.pc = "done"
           /\ t.final = "failed"
           /\ t.debug_calls = k - 1

\* C8 witness: the executor was unreachable on the second attempt of a loop.
C8_Witness ==
  \E i \in DOMAIN tasks :
    /\ tasks[i].execs = <<"error", "connect_error">>
    /\ tasks[i].pc = "done"

\* C9: when the executor refuses the connection during the validation stage,
\* the driver's reaction is to end with the stage failed; it does not take the
\* answer for an approval and go on to generation.
C9_ValidationUnreachableFails ==
  \A i \in DOMAIN tasks :
    LET t == tasks[i]
    IN (t.critic = "connect_error" /\ t.pc # "after_critic") =>
         /\ ~t.approved
         /\ t.pc = "done"
         /\ t.final = "failed"

\* C10: an executor call of the self-healing loop that times out consumes its
\* attempt and, when attempts remain, is followed by the correction stage and
\* the next attempt: the loop does not end on it.
C10_TimeoutRetried ==
  \A i \in DOMAIN tasks :
    LET t == tasks[i]
    IN \A k \in DOMAIN t.execs :
         (t.execs[k] = "timeout" /\ k < max_debug_attempts /\ k = Len(t.execs)) =>
           /\ t.pc = "heal_debug"
           /\ t.debug_attempt = k

\* C11: fact-merge invariant.  Once the schema of a workflow holds a real value
\* (neither empty nor the placeholder), no step of a driver or of an endpoint
\* changes it to the empty value or to the placeholder.
C11_FactMerge ==
  [][ \A w \in DOMAIN heap :
        heap[w].schema \notin {"", SchemaNotAvailable}
          => heap'[w].schema \notin {"", SchemaNotAvailable} ]_vars

\* C12: first non-empty value wins.  Once the schema of a workflow holds a real
\* value, no channel (log scan, callback, relay poll) replaces it by another
\* real value.
C12_FirstValueWins ==
  [][ \A w \in DOMAIN heap :
        heap[w].schema \notin {"", SchemaNotAvailable}
          => heap'[w].schema \in {heap[w].schema, "", SchemaNotAvailable} ]_vars

\* C13: Scenario D.  The callback delivered a schema while the schema-capture
\* stage was running, and the record still holds it when the scan of the
\* schema-capture logs returns without a schema tag: that step keeps the value
\* and takes the workflow to the schema checkpoint, writing no placeholder and
\* polling no relay.
C13_ScenarioD ==
  [][ \A i \in DOMAIN tasks :
        ( /\ tasks[i].pc = "schema_exec"
          /\ tasks'[i].pc # "schema_exec"
          /\ tasks'[i].scan = "no_tag"
          /\ response.op = "schema_callback"
          /\ response.code = 200
          /\ response.at = "intermediate_schema_capture"
          /\ heap[tasks[i].wid].schema \in CallbackSchemas )
        => ( /\ heap'[tasks[i].wid].schema = heap[tasks[i].wid].schema
             /\ heap'[tasks[i].wid].next_step = "waiting_schema_approval"
             /\ tasks'[i].pc = "done"
             /\ tasks'[i].exit = "checkpoint" ) ]_vars

\* C13 witness: the driver is at the schema checkpoint after a scan without a
\* tag, the callback having been served during schema capture.
C13_Witness ==
  \E i \in DOMAIN tasks :
    /\ tasks[i].fn = "continue_workflow_after_approval"
    /\ tasks[i].exit = "checkpoint"
    /\ tasks[i].scan = "no_tag"
    /\ response.op = "schema_callback"
    /\ response.at = "intermediate_schema_capture"
    /\ heap[tasks[i].wid].schema \in CallbackSchemas
    /\ heap[tasks[i].wid].next_step = "waiting_schema_approval"

\* C14: a discovery attempt never ends with a chosen locator that was rejected
\* earlier in the workflow, be it by the critic in the same loop or by a human
\* reject.
C14_RejectedNeverChosen ==
  \A i \in DOMAIN tasks :
    LET t == tasks[i]
    IN (t.pc = "critic" /\ heap[t.wid].url # "")
         => heap[t.wid].url \notin (t.refused \cup Range(heap[t.wid].rejected_urls))

\* C15: the exclusion list of a workflow only grows: across every step of a
\* driver or of an endpoint the new list holds every locator of the old one.
C15_ExclusionGrows ==
  [][ \A w \in DOMAIN heap :
        Range(heap[w].rejected_urls) \subseteq Range(heap'[w].rejected_urls) ]_vars

\* C15 witness: two locators were rejected one after the other, with a retry of
\* discovery in between.
C15_Witness ==
  \E w \in DOMAIN heap :
    /\ Len(heap[w].rejected_urls) = 2
    /\ response.op = "reject"

\* C16: when discovery has returned a locator that the exclusion list holds or
\* that the critic refused earlier in the same loop, the retry controller takes
\* the attempt for a critical_error whatever the critic answers this time: the
\* locator is neither approved nor brought to the checkpoint.
C16_RepeatedLocatorIsCritical ==
  \A i \in DOMAIN tasks :
    LET t == tasks[i]
    IN ( /\ t.pc = "after_critic"
         /\ t.dataset_url # ""
         /\ t.dataset_url \in (t.refused \cup Range(heap[t.wid].rejected_urls)) )
       => critic_verdict(heap[t.wid]) = "retry"

\* C17: the stage of a workflow enters generation stage 2 or a later stage
\* (ml_engineering_agent, browser_execution, waiting_final_approval, completed)
\* only by a schema approve call served while the workflow was at the schema
\* checkpoint.
C17_SchemaCheckpointFirst ==
  [][ LET later == { "ml_engineering_agent", "browser_execution",
                     "waiting_final_approval", "completed" }
      IN \A w \in DOMAIN heap :
           (heap[w].next_step \notin later /\ heap'[w].next_step \in later)
             => ( /\ calls' = calls + 1
                  /\ response'.op = "schema_approve"
                  /\ response'.at = "waiting_schema_approval" ) ]_vars

\* C18: once the stage of a workflow is aborted, no driver task of the workflow
\* takes a step (no stage function, no executor call) and no step of a driver
\* moves the stage away from aborted, including a task that was scheduled or
\* running when the abort was served.
C18_AbortStops ==
  [][ \A w \in DOMAIN heap :
        (heap[w].next_step = "aborted" /\ calls' = calls)
          => ( /\ heap'[w].next_step = "aborted"
               /\ \A i \in DOMAIN tasks :
                    (tasks[i].wid = w \/ tasks'[i].wid = w)
                      => tasks'[i] \in {tasks[i], Settled[i]} ) ]_vars

\* C19: a request (approve, reject, schema approve, schema reject, feedback,
\* schema callback) served for a workflow whose stage is completed, failed or
\* aborted leaves the stage as it was and schedules no driver task.
C19_TerminalStages ==
  [][ ( /\ calls' = calls + 1
        /\ response'.op \in {"approve", "reject", "schema_approve",
                             "schema_reject", "feedback", "schema_callback"}
        /\ response'.at \in {"completed", "failed", "aborted"} )
      => ( /\ heap'[response'.wid].next_step = response'.at
           /\ tasks' = Settled ) ]_vars

\* C20: the approval field of a record changes only from Pending to Approved
\* or from Pending to Rejected, never from Approved to Rejected or from
\* Rejected to Approved, and it comes back to Pending only in a step of
\* retry_research_after_rejection, the task a reject call schedules.
C20_ApprovalTransitions ==
  [][ \A w \in DOMAIN heap :
        LET before == heap[w].human_approval
            after  == heap'[w].human_approval
        IN \/ after = before
           \/ before = PENDING /\ after \in {APPROVED, REJECTED}
           \/ /\ after = PENDING
              /\ \E i \in DOMAIN tasks :
                   /\ tasks[i].wid = w
                   /\ tasks[i].fn = "retry_research_after_rejection"
                   /\ tasks'[i] # tasks[i]
                   /\ calls' = calls ]_vars

\* C22: a step that moves the stage of a workflow to failed is the step of a
\* driver whose failing loop is over, and by then the message log is longer
\* than it was when that loop began.
C22_FailureLeavesMessage ==
  [][ \A w \in DOMAIN heap :
        (heap[w].next_step # "failed" /\ heap'[w].next_step = "failed")
          => \E i \in DOMAIN tasks :
               /\ tasks[i].wid = w
               /\ tasks[i].pc # "done"
               /\ tasks'[i].pc = "done"
               /\ Len(heap'[w].messages) > tasks[i].began ]_vars

\* C23: a feedback call served at waiting_final_approval either (satisfied)
\* sets the stage to completed and schedules no driver task, or (not
\* satisfied) appends exactly one entry, the user's note, to the message log,
\* sets the stage to data_engineering_agent, schedules exactly one task, a
\* continue_workflow_after_approval, and leaves the locator, its kind, the
\* captured schema and the rejected locators as they were.
C23_Feedback ==
  [][ ( /\ calls' = calls + 1
        /\ response'.op = "feedback"
        /\ response'.code = 200
        /\ response'.at = "waiting_final_approval" )
      => LET w == response'.wid
             s == heap[w]
             s2 == heap'[w]
             started == {i \in DOMAIN tasks : tasks'[i] # Settled[i]}
         IN \/ /\ response'.status = "completed"
               /\ s2.next_step = "completed"
               /\ s2.messages = s.messages
               /\ started = {}
            \/ /\ response'.status = "retrying"
               /\ s2.messages = Append(s.messages, "user: Feedback")
               /\ s2.next_step = "data_engineering_agent"
               /\ Cardinality(started) = 1
               /\ \A i \in started :
                    tasks'[i] = NewTask(w, "continue_workflow_after_approval", "start")
               /\ s2.url = s.url
               /\ s2.source_type = s.source_type
               /\ s2.schema = s.schema
               /\ s2.rejected_urls = s.rejected_urls ]_vars

\* C23 witness: an unsatisfied feedback has just been served at the final
\* checkpoint of a workflow that holds a captured schema.
C23_Witness ==
  /\ response.op = "feedback"
  /\ response.status = "retrying"
  /\ response.at = "waiting_final_approval"
  /\ \E i \in DOMAIN tasks :
       /\ tasks[i].fn = "continue_workflow_after_approval"
       /\ tasks[i].pc = "start"
       /\ heap[tasks[i].wid].next_step = "data_engineering_agent"
       /\ heap[tasks[i].wid].schema # ""
       /\ Len(heap[tasks[i].wid].messages) > 1

\* C24: an approve call served at waiting_human_approval, and a schema approve
\* call served at waiting_schema_approval, sets the approval to Approved,
\* appends the marker "approved" to the review feedback, moves the stage to
\* data_engineering_agent, respectively ml_engineering_agent, and schedules
\* exactly one driver task, the resumption from that stage.
C24_ApproveAtCheckpoint ==
  [][ LET at == [ approve |-> "waiting_human_approval",
                  schema_approve |-> "waiting_schema_approval" ]
          forward == [ approve |-> "data_engineering_agent",
                       schema_approve |-> "ml_engineering_agent" ]
          resume == [ approve |-> "continue_workflow_after_approval",
                      schema_approve |-> "continue_after_schema_validation" ]
      IN ( /\ calls' = calls + 1
           /\ response'.op \in DOMAIN at
           /\ response'.code = 200
           /\ response'.at = at[response'.op] )
         => LET w == response'.wid
                started == {i \in DOMAIN tasks : tasks'[i] # Settled[i]}
            IN /\ heap'[w].human_approval = APPROVED
               /\ heap'[w].review_feedback = Append(heap[w].review_feedback, "approved")
               /\ heap'[w].next_step = forward[response'.op]
               /\ Cardinality(started) = 1
               /\ \A i \in started : tasks'[i] = NewTask(w, resume[response'.op], "start") ]_vars

\* C25: a reject call served at waiting_human_approval sets the approval to
\* Rejected, leaves the locator the record held (when it held one) among the
\* rejected locators together with those already there, sets the stage to
\* research_agent and schedules exactly one driver task, a
\* retry_research_after_rejection.
C25_RejectAtCheckpoint ==
  [][ ( /\ calls' = calls + 1
        /\ response'.op = "reject"
        /\ response'.code = 200
        /\ response'.at = "waiting_human_approval" )
      => LET w == response'.wid
             started == {i \in DOMAIN tasks : tasks'[i] # Settled[i]}
         IN /\ heap'[w].human_approval = REJECTED
            /\ heap[w].url # "" => heap[w].url \in Range(heap'[w].rejected_urls)
            /\ Range(heap[w].rejected_urls) \subseteq Range(heap'[w].rejected_urls)
            /\ heap'[w].next_step = "research_agent"
            /\ Cardinality(started) = 1
            /\ \A i \in started :
                 tasks'[i] = NewTask(w, "retry_research_after_rejection", "start") ]_vars

\* C25 witness: a reject has just been served at the dataset checkpoint and
\* the record lists the locator it held.
C25_Witness ==
  /\ response.op = "reject"
  /\ response.code = 200
  /\ response.at = "waiting_human_approval"
  /\ \E i \in DOMAIN tasks :
       /\ tasks[i].fn = "retry_research_after_rejection"
       /\ tasks[i].pc = "start"
       /\ heap[tasks[i].wid].url \in Range(heap[tasks[i].wid].rejected_urls)
       /\ heap[tasks[i].wid].human_approval = REJECTED

\* C26: once a driver has returned at a checkpoint (waiting_human_approval or
\* waiting_schema_approval) that the stage of its workflow shows, a step that
\* serves no request leaves the stage at the checkpoint and is not the step of
\* a driver task of the workflow, and a request other than a decision
\* (approve, reject, schema approve, schema reject, feedback) leaves the stage
\* at the checkpoint too.
C26_CheckpointHalts ==
  [][ \A w \in DOMAIN heap :
        ( /\ heap[w].next_step \in {"waiting_human_approval", "waiting_schema_approval"}
          /\ \E i \in DOMAIN tasks :
               /\ tasks[i].wid = w
               /\ tasks[i].pc = "done"
               /\ tasks[i].exit = "checkpoint"
               /\ tasks[i].final = heap[w].next_step
          /\ \/ calls' = calls
             \/ response'.op \notin {"approve", "reject", "schema_approve",
                                     "schema_reject", "feedback"} )
        => ( /\ heap'[w].next_step = heap[w].next_step
             /\ \A j \in DOMAIN tasks :
                  tasks[j].wid = w => tasks'[j] \in {tasks[j], Settled[j]} ) ]_vars

\* C29: at any time at most one driver task of a workflow has begun and has
\* not yet returned.
C29_OneActiveDriver ==
  \A w \in WorkflowIds :
    Cardinality({i \in DOMAIN tasks :
                   tasks[i].wid = w /\ tasks[i].pc \notin {"start", "done"}}) <= 1

\* C27: a request for one workflow (status, approve, reject, schema approve,
\* schema reject, schema callback, feedback, delete) whose id is not in the
\* store answers 404, leaves the store and every record as they were and
\* schedules no driver task.
C27_UnknownIdNotFound ==
  [][ ( /\ calls' = calls + 1
        /\ response'.op \in {"status", "approve", "reject", "schema_approve",
                             "schema_reject", "schema_callback", "feedback", "delete"}
        /\ response'.wid \notin workflows )
      => ( /\ response'.code = 404
           /\ workflows' = workflows
           /\ heap' = heap
           /\ tasks' = Settled ) ]_vars

\* C27 witness: an approve call for a deleted workflow has been answered 404.
C27_Witness ==
  /\ response.op = "approve"
  /\ response.code = 404
  /\ response.wid \in DOMAIN heap
  /\ response.wid \notin workflows

\* C28: the id of a workflow that start has created leaves the store only in
\* the step of a delete call for it or of a clear call, and once it has left
\* the store it is never in the store again.
C28_StorePresence ==
  [][ \A w \in DOMAIN heap :
        /\ (w \in workflows /\ w \notin workflows')
             => ( /\ calls' = calls + 1
                  /\ response'.code = 200
                  /\ \/ response'.op = "clear"
                     \/ response'.op = "delete" /\ response'.wid = w )
        /\ w \notin workflows => w \notin workflows' ]_vars

C31_MessagesAppendOnly ==
  [][ \A w \in DOMAIN heap :
        /\ Len(heap[w].messages) <= Len(heap'[w].messages)
        /\ SubSeq(heap'[w].messages, 1, Len(heap[w].messages)) = heap[w].messages ]_vars

\* C31 witness: a schema reject call has added its notice to a log that
\* held the narration of the stages.
C31_Witness ==
  \E w \in DOMAIN heap :
    LET m == heap[w].messages
    IN /\ Len(m) >= 3
       /\ m[Len(m)] = "system: Workflow aborted by user"
       /\ m[1] = Narration
       /\ response.op = "schema_reject"

C35_FailedOnlyWhenFailed ==
  [][ ( /\ calls' = calls + 1
        /\ response'.op = "status"
        /\ response'.code = 200
        /\ response'.status = "failed" )
      => heap[response'.wid].next_step = "failed" ]_vars

\* C33: the record store.  get_state of an unknown id returns None;
\* update_state of an unknown id returns False and creates no record;
\* update_state of a known id stores exactly the given record, leaves the
\* other records alone and returns True, and get_state of a known id returns
\* the stored record; approve_step and reject_step of an unknown id return
\* False and change nothing.  None of these calls raises.
C33_RecordStore ==
  [][ LET op == response'.op
          w == response'.wid
          known == w \in DOMAIN heap
      IN /\ op \in {"get_state", "update_state", "approve_step", "reject_step"}
              => response'.raised = ""
         /\ (op = "get_state" /\ ~known)
              => (response'.returned = "None" /\ heap' = heap)
         /\ (op = "get_state" /\ known)
              => (response'.returned = "record" /\ heap' = heap)
         /\ (op = "update_state" /\ ~known)
              => (response'.returned = "False" /\ heap' = heap)
         /\ (op = "update_state" /\ known)
              => /\ response'.returned = "True"
                 /\ heap' = [heap EXCEPT ![w] = response'.given]
         /\ (op \in {"approve_step", "reject_step"} /\ ~known)
              => (response'.returned = "False" /\ heap' = heap) ]_vars

\* C34: whenever a driver task returns, the stage of its workflow is a
\* checkpoint (waiting_human_approval, waiting_schema_approval,
\* waiting_final_approval) or a terminal stage (failed, completed, aborted): no
\* return leaves the workflow at a working stage with nothing scheduled.
C34_ReturnsAtRest ==
  \A i \in DOMAIN tasks :
    (tasks[i].pc = "done" /\ tasks[i].exit \notin {"", "not_found"}) =>
      tasks[i].final \in {"waiting_human_approval", "waiting_schema_approval",
                          "waiting_final_approval", "failed", "completed", "aborted"}

\* C36: within one run of the self-healing loop the executor receives at most
\* 3 submissions and debugger_node is called at most 2 times; debugger_node is
\* called only after an attempt whose output held a failure signature and
\* never after the third attempt; each submission made once debugger_node has
\* produced code for the run carries the code of the run's most recent
\* correction.
C36_LoopDiscipline ==
  [][ \A i \in DOMAIN tasks :
        LET t == tasks'[i]
            n == Len(t.execs)
        IN /\ n <= 3
           /\ t.debug_calls <= 2
           /\ t.debug_calls \in {n - 1, n}
           /\ \A k \in 1..t.debug_calls : k < 3 /\ t.execs[k] = "error"
           /\ t.pc = "heal_debug" => (n < 3 /\ t.debug_calls = n - 1 /\ t.execs[n] = "error")
           /\ Len(t.submitted) = n
           /\ (Len(t.submitted) = Len(tasks[i].submitted) + 1 /\ tasks[i].code > 1)
                => t.submitted[n] = tasks[i].code ]_vars

\* C37: the two copies of the self-healing loop agree.  Whenever a submission
\* of either copy comes back, the loop of run_workflow_simulation and the loop
\* of continue_after_schema_validation decide alike on that answer at that
\* attempt (correct and retry, stop with success, stop without), the task does
\* what both decide, and when it stops it leaves the stage both copies write:
\* so for every sequence of executor answers the copies make the same number
\* of executor and debugger_node calls and end in the same stage.
C37_CopiesAgree ==
  [][ \A i \in DOMAIN tasks :
        LET t == tasks[i]
            u == tasks'[i]
            n == Len(u.execs)
        IN n = Len(t.execs) + 1 =>
             LET seen == u.execs[n]
                 o == IF seen \in {"error", "clean"}
                      THEN [kind |-> "ok", logs |-> heap'[t.wid].execution_logs]
                      ELSE [kind |-> seen, logs |-> <<>>]
                 first == run_heal_verdict(o, t.debug_attempt)
                 second == heal_verdict(o, t.debug_attempt)
             IN /\ first = second
                /\ u.pc = "heal_debug" <=> first = "debug"
                /\ u.pc = "done" <=> first # "debug"
                /\ u.pc = "done" =>
                     /\ u.final = run_final_stage(first = "success")
                     /\ u.final = final_stage(second = "success") ]_vars

\* C37 witness: the loop of the initial drive ended after two corrections, at
\* the stage the loop of the resume path ends at for the same answers.
C37_Witness ==
  \E i \in DOMAIN tasks :
    /\ tasks[i].entry = "run_workflow_simulation"
    /\ tasks[i].pc = "done"
    /\ tasks[i].execs = <<"error", "error", "clean">>
    /\ tasks[i].debug_calls = 2
    /\ tasks[i].final = final_stage(TRUE)

====
